---- MODULE Spec2Model ----
(***************************************************************************)
(* A model of the SPINS ingest engine: backend/ingest.py (the single-      *)
(* period pipeline and its multi-file drivers), backend/columns.py (role   *)
(* matching, the profile key and the profile store) and mapper.py (the     *)
(* mapping wizard that writes the store).                                  *)
(*                                                                         *)
(* A Python str is a sequence of atoms.  An atom is one character, or a    *)
(* run of characters that holds no leading or trailing white space and     *)
(* that the code never splits; lower_atom is the table of str.lower over   *)
(* the atoms in use, and Lang is the table of the regular expressions      *)
(* over the strings in use.  Row indices are Python's, counted from 0.      *)
(***************************************************************************)
EXTENDS Integers, Sequences, FiniteSets, TLC

\* ------------------------------------------------------------- bounds
MaxSheets == 2
MaxFiles == 2

\* --------------------------------------------------- program constants
max_scan == 200
meta_rows == 12

\* ----------------------------------------------------------- strings
S(a) == <<a>>
None == <<"<None>">>
NaN == <<"<NaN>">>
NA == <<>>

Min(X) == CHOOSE x \in X : \A y \in X : x <= y
Max(X) == CHOOSE x \in X : \A y \in X : y <= x

IsSpace(a) == a \in {" ", "\t"}

lower_atom(a) ==
  CASE a = "A" -> "a"
    [] a = "B" -> "b"
    [] a = "Row Labels" -> "row labels"
    [] a = "ROW LABELS" -> "row labels"
    [] a = "My Row Labels Total" -> "my row labels total"
    [] a = "Row  Labels" -> "row  labels"
    [] a = "Retailer" -> "retailer"
    [] a = "Units" -> "units"
    [] a = "UNITS" -> "units"
    [] a = "Units (4W)" -> "units (4w)"
    [] a = "UNITS (4W)" -> "units (4w)"
    [] a = "Sum of Units" -> "sum of units"
    [] a = "Dollars" -> "dollars"
    [] a = "Stores" -> "stores"
    [] a = "4 Wks" -> "4 wks"
    [] a = "12 Wks" -> "12 wks"
    [] a = "52 Wks" -> "52 wks"
    [] a = "YTD" -> "ytd"
    [] a = "Year To Date" -> "year to date"
    [] a = "SPINS Report" -> "spins report"
    [] a = "Kroger" -> "kroger"
    [] a = "Target" -> "target"
    [] a = "Brand Ending 03-15-24 Report" -> "brand ending 03-15-24 report"
    [] a = "Ret_Brand_Pivot" -> "ret_brand_pivot"
    [] a = "Retailer Pivot 2" -> "retailer pivot 2"
    [] a = "Sheet1" -> "sheet1"
    [] a = "Sheet2" -> "sheet2"
    [] OTHER -> a

lower(s) == [i \in 1..Len(s) |-> lower_atom(s[i])]

strip(s) ==
  LET keep == {i \in 1..Len(s) : ~IsSpace(s[i])}
  IN IF keep = {} THEN <<>> ELSE SubSeq(s, Min(keep), Max(keep))

\* x.astype(str): a missing cell (float nan) reads "nan"
astype_str(c) == IF c = NaN THEN S("nan") ELSE c

\* re.sub(r"\s+", " ", s): every run of white space becomes one blank
RECURSIVE collapse_ws(_)
collapse_ws(s) ==
  IF s = <<>> THEN <<>>
  ELSE IF IsSpace(s[1])
       THEN IF Len(s) > 1 /\ IsSpace(s[2])
            THEN collapse_ws(Tail(s))
            ELSE <<" ">> \o collapse_ws(Tail(s))
       ELSE <<s[1]>> \o collapse_ws(Tail(s))

_norm(s) == collapse_ws(lower(strip(s)))

\* ------------------------------------------------- regular expressions
\* Lang(pat): the lower-cased strings in use in which re.search(pat, .)
\* finds a match; every pattern of the code is compiled or applied
\* case-insensitively, or applied to lower-cased text.
Lang(pat) ==
  CASE pat = "^row labels$" -> {S("row labels")}
    [] pat = "\\b(retailer|chain)\\b" -> {S("retailer")}
    [] pat = "\\b(sum of )?units\\b" -> {S("units"), S("sum of units"), S("units (4w)")}
    [] pat = "\\b(sum of )?dollars?\\b|\\brevenue\\b|\\bnet sales\\b" -> {S("dollars")}
    [] pat = "\\bsum of # of stores selling calc\\b" -> {}
    [] pat = "\\b# of stores\\b" -> {}
    [] pat = "\\bstores\\b" -> {S("stores")}
    [] pat = "\\bdoors\\b" -> {}
    [] pat = "^sum of units$" -> {S("sum of units")}
    [] pat = "\\bunits?\\b" -> {S("units"), S("sum of units"), S("units (4w)")}
    [] pat = "units.*4w" -> {S("units (4w)")}
    [] pat = "\\bdollars?\\b" -> {S("dollars")}
    [] pat = "\\b4\\s*w(ee)?ks?\\b|\\b4wk\\b|\\b4 wks\\b" -> {S("4 wks")}
    [] pat = "\\b52\\s*w(ee)?ks?\\b|\\b52wk\\b|\\b52 wks\\b" -> {S("52 wks")}
    [] pat = "\\bytd\\b|\\byear to date\\b" -> {S("ytd"), S("year to date")}
    [] pat = "YTD" -> {S("ytd")}
    [] pat = "\\b4\\s*WKS?\\b" -> {S("4 wks")}
    [] pat = "\\b12\\s*WKS?\\b" -> {S("12 wks")}
    [] pat = "\\b24\\s*WKS?\\b" -> {S("24 wks")}
    [] pat = "\\b52\\s*WKS?\\b" -> {S("52 wks")}
    [] pat = "ending\\s+(\\d{2})-(\\d{2})-(\\d{2})" ->
         {<<"brand ending 03-15-24 report", ".xlsb">>}
    [] pat = "row labels" -> {S("row labels"), S("my row labels total")}
    [] pat = "^ret(ailer)?$" -> {S("retailer")}
    [] pat = "row\\s*labels" -> {S("row labels"), S("my row labels total"), S("row  labels")}
    [] pat = "^stores?$" -> {S("stores")}
    [] pat = "unnamed" -> {S("unnamed: 0")}
    [] pat = "ret" -> {S("ret_brand_pivot"), S("retailer"), S("retailer pivot 2")}
    [] pat = "brand" -> {S("ret_brand_pivot")}
    [] pat = "pivot" -> {S("ret_brand_pivot"), S("retailer pivot 2")}
    [] OTHER -> {}

re_search(pat, s) == lower(s) \in Lang(pat)

\* ------------------------------------------------ backend/ingest.py
Range(s) == {s[i] : i \in 1..Len(s)}

_parse_dates_from_name(name) ==
  IF re_search("ending\\s+(\\d{2})-(\\d{2})-(\\d{2})", name)
  THEN <<S("2024-03-15"), S("2024-03-01")>>
  ELSE <<None, None>>

row_has_anchor(row) ==
  \E j \in 1..Len(row) : re_search("row labels", strip(astype_str(row[j])))

RECURSIVE scan_rows(_, _, _)
scan_rows(raw, i, upto) ==
  IF i >= upto THEN -1
  ELSE IF row_has_anchor(raw[i + 1]) THEN i
  ELSE scan_rows(raw, i + 1, upto)

\* len(raw): the scan with no bound on it
scan_upto_all(raw, bound) == Len(raw)

\* min(max_scan, len(raw))
scan_upto(raw, bound) == IF bound < Len(raw) THEN bound ELSE Len(raw)

\* the row index of the first row holding 'row labels', -1 for Python's None
_find_header_row(raw, bound) == scan_rows(raw, 0, scan_upto(raw, bound))

\* (start_hdr, end_hdr, data_start), None when the scan finds no row
_find_header_block(raw, bound) ==
  LET end_hdr == scan_rows(raw, 0, scan_upto(raw, bound))
  IN IF end_hdr = -1 THEN None
     ELSE << IF end_hdr - 3 > 0 THEN end_hdr - 3 ELSE 0, end_hdr, end_hdr + 1 >>

\* the indices i for which either loop reads raw.iloc[i], in order
RECURSIVE rows_examined(_, _, _)
rows_examined(raw, i, upto) ==
  IF i >= upto THEN <<>>
  ELSE IF row_has_anchor(raw[i + 1]) THEN <<i>>
  ELSE <<i>> \o rows_examined(raw, i + 1, upto)

\* the cells of rows [max(0, header_row-12), header_row), row by row
window_cells(raw, header_row) ==
  LET lo == IF header_row - meta_rows > 0 THEN header_row - meta_rows ELSE 0
      rows == SubSeq(raw, lo + 1, header_row)
  IN UNION {Range(rows[i]) : i \in 1..Len(rows)}

in_window(pat, cells) == \E c \in cells : re_search(pat, astype_str(c))

_guess_period_from_meta(raw, header_row) ==
  LET flat == window_cells(raw, header_row)
  IN IF in_window("\\b4\\s*w(ee)?ks?\\b|\\b4wk\\b|\\b4 wks\\b", flat) THEN S("4W")
     ELSE IF in_window("\\b52\\s*w(ee)?ks?\\b|\\b52wk\\b|\\b52 wks\\b", flat) THEN S("52W")
     ELSE IF in_window("\\bytd\\b|\\byear to date\\b", flat) THEN S("YTD")
     ELSE S("unknown")

_norm_cell(x) ==
  IF x = None \/ x = NaN THEN <<>>
  ELSE IF re_search("unnamed", strip(x)) THEN <<>>
  ELSE strip(x)

\* the older inferencer, over rows [max(0, start_hdr-5), end_hdr]; nothing calls it
_guess_period_from_block(raw, start_hdr, end_hdr) ==
  LET lo == IF start_hdr - 5 > 0 THEN start_hdr - 5 ELSE 0
      rows == SubSeq(raw, lo + 1, end_hdr + 1)
      text == {_norm_cell(c) : c \in UNION {Range(rows[i]) : i \in 1..Len(rows)}}
      has(pat) == \E c \in text : re_search(pat, c)
  IN IF has("YTD") THEN S("YTD")
     ELSE IF has("\\b4\\s*WKS?\\b") THEN S("4")
     ELSE IF has("\\b12\\s*WKS?\\b") THEN S("12")
     ELSE IF has("\\b24\\s*WKS?\\b") THEN S("24")
     ELSE IF has("\\b52\\s*WKS?\\b") THEN S("52")
     ELSE S("unknown")

\* low = {c.lower(): c for c in cols}, as the list of its items: a key keeps
\* the place of its first insertion and the value of its last
RECURSIVE dict_lower(_, _)
dict_lower(cols, acc) ==
  IF cols = <<>> THEN acc
  ELSE LET k == lower(Head(cols))
           at == {i \in 1..Len(acc) : acc[i][1] = k}
       IN dict_lower(Tail(cols),
                     IF at = {} THEN Append(acc, <<k, Head(cols)>>)
                     ELSE [acc EXCEPT ![Min(at)] = <<k, Head(cols)>>])

RECURSIVE first_item(_, _)
first_item(items, pat) ==
  IF items = <<>> THEN None
  ELSE IF re_search(pat, items[1][1]) THEN items[1][2]
  ELSE first_item(Tail(items), pat)

RECURSIVE choose_loop(_, _)
choose_loop(items, patterns) ==
  IF patterns = <<>> THEN None
  ELSE LET r == first_item(items, Head(patterns))
       IN IF r # None THEN r ELSE choose_loop(items, Tail(patterns))

_choose_col(cols, patterns) == choose_loop(dict_lower(cols, <<>>), patterns)

preferred ==
  << S("Ret_Brand_Pivot"), S("Ret_Brand_All_B_Pivot"), S("Ret_BrandCategory_Pivot"),
     S("Ret_BrandCategory_All_B_Pivot"), S("Retailer") >>

RECURSIVE filter_in(_, _)
filter_in(names, keepset) ==
  IF names = <<>> THEN <<>>
  ELSE IF Head(names) \in keepset THEN <<Head(names)>> \o filter_in(Tail(names), keepset)
  ELSE filter_in(Tail(names), keepset)

hints_pivot(s) ==
  (re_search("ret", s) \/ re_search("brand", s)) /\ re_search("pivot", s)

candidate_sheets_of(sheet_names) ==
  LET pref == filter_in(preferred, Range(sheet_names))
      hint == filter_in(sheet_names, {s \in Range(sheet_names) : hints_pivot(s)})
  IN IF pref # <<>> THEN pref
     ELSE IF hint # <<>> THEN hint
     ELSE sheet_names

\* pd.to_numeric(errors="coerce"): the number, or NA for what is no number
to_numeric(c) ==
  CASE c = S("5") -> <<5>>
    [] c = S("7") -> <<7>>
    [] c = S("10") -> <<10>>
    [] c = S("20") -> <<20>>
    [] OTHER -> NA

tidy_columns ==
  << "chain", "units", "dollars", "stores", "brand", "report_date", "report_month", "period" >>

\* the columns kept: a non-empty name that does not start with "unnamed"
keep_cols(headers) ==
  {j \in 1..Len(headers) :
      headers[j] # <<>> /\ ~re_search("unnamed", headers[j])}

RECURSIVE seq_of(_, _)
seq_of(idx, f) ==
  IF idx = {} THEN <<>>
  ELSE <<f[Min(idx)]>> \o seq_of(idx \ {Min(idx)}, f)

col_of(headers, name) == Min({j \in keep_cols(headers) : headers[j] = name})

chain_patterns == << "^row labels$", "\\b(retailer|chain)\\b" >>
units_patterns == << "\\b(sum of )?units\\b" >>
dollars_patterns == << "\\b(sum of )?dollars?\\b|\\brevenue\\b|\\bnet sales\\b" >>
stores_patterns ==
  << "\\bsum of # of stores selling calc\\b", "\\b# of stores\\b", "\\bstores\\b", "\\bdoors\\b" >>

\* the four columns the pipeline maps on one sheet
map_columns(cols) ==
  [chain |-> _choose_col(cols, chain_patterns),
   units |-> _choose_col(cols, units_patterns),
   dollars |-> _choose_col(cols, dollars_patterns),
   stores |-> _choose_col(cols, stores_patterns)]

\* "if not chain_col or not units_col or not dollars_col or not stores_col"
not_usable(m) ==
  m.chain \in {None, <<>>} \/ m.units \in {None, <<>>}
    \/ m.dollars \in {None, <<>>} \/ m.stores \in {None, <<>>}

RECURSIVE clean_rows(_, _, _, _, _)
clean_rows(data, headers, m, name, period) ==
  IF data = <<>> THEN <<>>
  ELSE LET r == Head(data)
           chain == strip(astype_str(r[col_of(headers, m.chain)]))
           dates == _parse_dates_from_name(name)
           row == [chain |-> chain,
                   units |-> to_numeric(r[col_of(headers, m.units)]),
                   dollars |-> to_numeric(r[col_of(headers, m.dollars)]),
                   stores |-> to_numeric(r[col_of(headers, m.stores)]),
                   brand |-> S("NEOLEA"),
                   report_date |-> dates[1],
                   report_month |-> dates[2],
                   period |-> period]
           rest == clean_rows(Tail(data), headers, m, name, period)
       IN IF Len(chain) > 0 THEN <<row>> \o rest ELSE rest

headers_of(raw, header_row) ==
  [j \in 1..Len(raw[header_row + 1]) |-> strip(astype_str(raw[header_row + 1][j]))]

cols_of(raw, header_row) ==
  LET headers == headers_of(raw, header_row)
  IN seq_of(keep_cols(headers), headers)

\* one sheet's frame: the cleaned rows under the tidy columns
sheet_frame(raw, header_row, m, name) ==
  [columns |-> tidy_columns,
   rows |-> clean_rows(SubSeq(raw, header_row + 2, Len(raw)),
                       headers_of(raw, header_row), m, name,
                       _guess_period_from_meta(raw, header_row))]

RECURSIVE concat_rows(_)
concat_rows(frames) ==
  IF frames = <<>> THEN <<>> ELSE Head(frames).rows \o concat_rows(Tail(frames))

\* ------------------------------------------------------------ state
VARIABLES
  file,        \* the workbook ingest_single_period was called on
  pc,          \* "idle", "sheets", "break", "returned", "driver", "done"
  candidates,  \* candidate_sheets
  si,          \* sheets the loop has taken from candidate_sheets
  out_rows,    \* the frames appended so far
  result,      \* what ingest_single_period returned or that it raised
  read,        \* the sheets pd.read_excel was called on, in order
  used,        \* per frame appended: the sheet, its columns, the columns mapped
  hist,        \* per call of ingest_single_period: the file name and the result
  driver,      \* the multi-file driver running, "none" for a direct call
  nlist,       \* len(files) of the driver's argument
  fi,          \* files the driver loop has finished
  frames,      \* the driver's frames
  output,      \* what the driver returned
  doc,         \* the profile document column_profiles.json
  confirmed,   \* the layouts the operator saved, each with the mapping confirmed
  writer,      \* per concurrent save_mapping call: its position and its locals
  args,        \* the arguments of a function applied on its own
  ret          \* and what it returned

ingestVars == <<file, pc, candidates, si, out_rows, result, read, used, hist>>
driverVars == <<driver, nlist, fi, frames, output>>
storeVars == <<doc, confirmed, writer>>
fnVars == <<args, ret>>
vars == <<ingestVars, driverVars, storeVars, fnVars>>

\* ------------------------------------------------------------ inputs
HdrFull == << S("Row Labels"), S("Units"), S("Dollars"), S("Stores") >>
HdrNoStores == << S("Row Labels"), S("Units"), S("Dollars"), NaN >>
HdrNoUnits == << S("Row Labels"), NaN, S("Dollars"), S("Stores") >>
Meta(a, b) == << S(a), IF b = "" THEN NaN ELSE S(b), NaN, NaN >>

\* a 52-week table: a clean row, a row with text for units and no stores, a
\* row with a blank chain, a row with no chain cell
Grid52 ==
  << Meta("SPINS Report", ""), Meta("52 Wks", ""), HdrFull,
     << S("Kroger"), S("10"), S("20"), S("5") >>,
     << <<" ", "Target", " ">>, S("x"), S("7"), NaN >>,
     << S(" "), S("5"), S("5"), S("5") >>,
     << NaN, S("10"), S("10"), S("10") >> >>
GridYtd4 ==
  << Meta("YTD", "4 Wks"), HdrFull, << S("Kroger"), S("7"), S("7"), S("7") >> >>
GridNoStores ==
  << Meta("4 Wks", ""), HdrNoStores, << S("Kroger"), S("10"), S("20"), NaN >> >>
GridBlank ==
  << Meta("SPINS Report", ""), HdrFull, << S(" "), S("10"), S("20"), S("5") >> >>
GridNoUnits ==
  << HdrNoUnits, << S("Kroger"), NaN, S("20"), S("5") >> >>
GridNoAnchor ==
  << Meta("SPINS Report", "") >>
Grid12 ==
  << Meta("12 Wks", ""), HdrFull, << S("Target"), S("5"), S("5"), S("5") >> >>
GridYtd ==
  << Meta("Year To Date", ""), HdrFull, << S("Target"), S("7"), S("5"), S("5") >> >>

Grids ==
  { Grid52, GridYtd4, GridNoStores, GridBlank, GridNoUnits, GridNoAnchor, Grid12, GridYtd }

SheetNames ==
  { S("Ret_Brand_Pivot"), S("Retailer"), S("Retailer Pivot 2"), S("Sheet1"), S("Sheet2") }
Sheets == [name : SheetNames, raw : Grids]

DatedName == << "Brand Ending 03-15-24 Report", ".xlsb" >>
PlainName == << "data", ".xlsx" >>
FileNames == { DatedName, PlainName }

\* the workbooks: 1..MaxSheets sheets, no two of one name
Workbooks ==
  { w \in UNION { [1..k -> Sheets] : k \in 1..MaxSheets } :
      \A i, j \in 1..Len(w) : i # j => w[i].name # w[j].name }

\* every workbook under the dated name, the one-sheet workbooks under the plain
\* name as well, and a file that cannot be opened
Files ==
  [name : {DatedName}, readable : {TRUE}, sheets : Workbooks]
    \cup [name : {PlainName}, readable : {TRUE}, sheets : [1..1 -> Sheets]]
    \cup [name : FileNames, readable : {FALSE}, sheets : {<<>>}]

NoFile == [name |-> <<>>, readable |-> FALSE, sheets |-> <<>>]
NoFrame == [columns |-> <<>>, rows |-> <<>>]
NoResult == [raised |-> FALSE, df |-> NoFrame]
NoDoc == [kind |-> "missing", map |-> <<>>]

sheet_names(f) == [i \in 1..Len(f.sheets) |-> f.sheets[i].name]
raw_of(f, sh) == (CHOOSE s \in Range(f.sheets) : s.name = sh).raw

\* ------------------------------------------- ingest_single_period
\* pd.ExcelFile(file_path) and the candidate list; a workbook that cannot be
\* opened raises out of ingest_single_period
Open(f) ==
  /\ file' = f
  /\ read' = <<>>
  /\ used' = <<>>
  /\ out_rows' = <<>>
  /\ si' = 0
  /\ IF f.readable
     THEN /\ candidates' = candidate_sheets_of(sheet_names(f))
          /\ result' = NoResult
          /\ pc' = "sheets"
          /\ hist' = hist
     ELSE /\ candidates' = <<>>
          /\ result' = [raised |-> TRUE, df |-> NoFrame]
          /\ pc' = "returned"
          /\ hist' = Append(hist, [name |-> f.name, result |-> result'])

\* a direct call, on any workbook of Fs
Call(Fs) ==
  /\ pc = "idle"
  /\ \E f \in Fs : Open(f)
  /\ UNCHANGED <<driverVars, storeVars, fnVars>>

\* one iteration of "for sh in candidate_sheets"; brk: the loop's break
SheetIteration(brk) ==
  /\ pc = "sheets"
  /\ si < Len(candidates)
  /\ LET sh == candidates[si + 1]
         raw == raw_of(file, sh)
         header_row == _find_header_row(raw, max_scan)
         cols == cols_of(raw, header_row)
         m == map_columns(cols)
     IN /\ read' = Append(read, sh)
        /\ si' = si + 1
        /\ IF header_row = -1 \/ not_usable(m)
           THEN UNCHANGED <<out_rows, used, pc>>
           ELSE /\ out_rows' = Append(out_rows, sheet_frame(raw, header_row, m, file.name))
                /\ used' = Append(used, [sheet |-> sh, cols |-> cols, mapping |-> m])
                /\ pc' = IF brk THEN "break" ELSE pc
  /\ UNCHANGED <<file, candidates, result, hist, driverVars, storeVars, fnVars>>

\* the loop without its break: every usable sheet is appended
ReadSheetNoBreak == SheetIteration(FALSE)

ReadSheet == SheetIteration(TRUE)

\* after the loop: the empty typed frame, or pd.concat(out_rows)
Return ==
  /\ \/ pc = "break"
     \/ pc = "sheets" /\ si = Len(candidates)
  /\ result' = [raised |-> FALSE,
                df |-> IF out_rows = <<>>
                       THEN [columns |-> tidy_columns, rows |-> <<>>]
                       ELSE [columns |-> out_rows[1].columns,
                             rows |-> concat_rows(out_rows)]]
  /\ hist' = Append(hist, [name |-> file.name, result |-> result'])
  /\ pc' = "returned"
  /\ UNCHANGED <<file, candidates, si, out_rows, read, used, driverVars, storeVars, fnVars>>

\* ------------------------------------------------- specifications
IdleDriver ==
  /\ driver = "none" /\ nlist = 0 /\ fi = 0 /\ frames = <<>> /\ output = NoResult
IdleStore == doc = NoDoc /\ confirmed = <<>> /\ writer = <<>>
IdleFn == args = [fn |-> "", key |-> <<>>] /\ ret = [raised |-> FALSE, value |-> <<"<None>">>]
IdleIngest ==
  /\ file = NoFile /\ candidates = <<>> /\ si = 0 /\ out_rows = <<>>
  /\ result = NoResult /\ read = <<>> /\ used = <<>> /\ hist = <<>>

\* one call of ingest_single_period on any workbook
Init == pc = "idle" /\ IdleIngest /\ IdleDriver /\ IdleStore /\ IdleFn
CallAny == Call(Files)
Next == CallAny \/ ReadSheet \/ Return
Spec == Init /\ [][Next]_vars

\* ------------------------------------------------ multi-file drivers
Drivers == { "ingest_all_singleperiod", "ingest_many" }

F_unreadable == [name |-> DatedName, readable |-> FALSE, sheets |-> <<>>]
F_52 == [name |-> PlainName, readable |-> TRUE,
         sheets |-> << [name |-> S("Ret_Brand_Pivot"), raw |-> Grid52] >>]
F_ytd4 == [name |-> DatedName, readable |-> TRUE,
           sheets |-> << [name |-> S("Sheet1"), raw |-> GridYtd4] >>]
F_noanchor == [name |-> PlainName, readable |-> TRUE,
               sheets |-> << [name |-> S("Sheet1"), raw |-> GridNoAnchor] >>]
F_blank == [name |-> DatedName, readable |-> TRUE,
            sheets |-> << [name |-> S("Retailer"), raw |-> GridBlank] >>]
F_twice == [name |-> DatedName, readable |-> TRUE,
            sheets |-> << [name |-> S("Retailer"), raw |-> Grid12],
                          [name |-> S("Ret_Brand_Pivot"), raw |-> Grid12] >>]
DriverFiles == { F_unreadable, F_52, F_ytd4, F_noanchor, F_blank, F_twice }

\* df["source_file"] = p.name
with_source_file(df, name) ==
  [columns |-> Append(df.columns, "source_file"),
   rows |-> [i \in 1..Len(df.rows) |-> df.rows[i] @@ [source_file |-> name]]]

\* "for p in files: try: df = ingest_single_period(p)": the next file
DriverNext ==
  /\ pc = "driver"
  /\ fi < nlist
  /\ \E f \in DriverFiles : Open(f)
  /\ UNCHANGED <<driverVars, storeVars, fnVars>>

\* the rest of the loop body, once ingest_single_period returned or raised
handled_frames(d, fr, res, name) ==
  IF d = "ingest_all_singleperiod"
  THEN IF res.raised THEN fr
       ELSE IF res.df.rows # <<>> /\ res.df.columns # <<>>
            THEN Append(fr, with_source_file(res.df, name))
            ELSE fr
  ELSE LET df == IF res.raised THEN NoFrame ELSE res.df
       IN IF Len(df.rows) > 0 THEN Append(fr, df) ELSE fr

DriverHandle ==
  /\ pc = "returned"
  /\ driver \in Drivers
  /\ frames' = handled_frames(driver, frames, result, file.name)
  /\ fi' = fi + 1
  /\ pc' = "driver"
  /\ UNCHANGED <<file, candidates, si, out_rows, result, read, used, hist,
                 driver, nlist, output, storeVars, fnVars>>

\* after the loop: the empty frame of the driver, or pd.concat(frames)
driver_return(d, fr) ==
  IF fr # <<>>
  THEN [columns |-> fr[1].columns, rows |-> concat_rows(fr)]
  ELSE IF d = "ingest_all_singleperiod"
       THEN [columns |-> Append(tidy_columns, "source_file"), rows |-> <<>>]
       ELSE NoFrame

DriverFinish ==
  /\ pc = "driver"
  /\ fi = nlist
  /\ output' = [raised |-> FALSE, df |-> driver_return(driver, frames)]
  /\ pc' = "done"
  /\ UNCHANGED <<file, candidates, si, out_rows, result, read, used, hist,
                 driver, nlist, fi, frames, storeVars, fnVars>>

\* a driver on a list of up to MaxFiles workbooks
InitDriver ==
  /\ pc = "driver" /\ IdleIngest /\ IdleStore /\ IdleFn
  /\ driver \in Drivers /\ nlist \in 0..MaxFiles
  /\ fi = 0 /\ frames = <<>> /\ output = NoResult
NextDriver == DriverNext \/ ReadSheet \/ Return \/ DriverHandle \/ DriverFinish
SpecDriver == InitDriver /\ [][NextDriver]_vars

\* ------------------------------------------------ backend/columns.py
header_prefix == 30

RECURSIVE match_cols(_, _)
match_cols(colnames, pat) ==
  IF colnames = <<>> THEN None
  ELSE IF re_search(pat, Head(colnames)) THEN Head(colnames)
  ELSE match_cols(Tail(colnames), pat)

RECURSIVE _match_one(_, _)
_match_one(colnames, patterns) ==
  IF patterns = <<>> THEN None
  ELSE LET c == match_cols(colnames, Head(patterns))
       IN IF c # None THEN c ELSE _match_one(colnames, Tail(patterns))

DEFAULT_PATTERNS ==
  [brand |-> << "^brand$", "^brand\\s*name$", "\\bbrand\\b" >>,
   chain |-> << "^ret(ailer)?$", "^banner$", "^chain$", "row\\s*labels", "\\bret.*label",
                "\\bbanner", "\\bchain" >>,
   units |-> << "\\bunits?\\b", "\\bsum\\s*of\\s*units?\\b", "units.*4w", "4w.*units" >>,
   dollars |-> << "\\bdollars?\\b", "\\bsales\\b", "^\\$.*", "\\bsum\\s*of\\s*dollars?\\b",
                  "dollars.*4w", "4w.*dollars" >>,
   stores |-> << "^stores?$", "\\bstores\\s*selling\\b", "\\bnum.*stores\\b", "door.*count",
                 "\\bdoors?\\b" >>,
   acv |-> << "\\bacv\\b", "\\bacv\\s*weighted\\b", "\\b%?\\s*acv\\b", "tdp.*acv",
              "weighted\\s*dist" >>]

suggest_mapping(headers) ==
  LET cols == [i \in 1..Len(headers) |-> _norm(headers[i])]
  IN [role \in DOMAIN DEFAULT_PATTERNS |-> _match_one(cols, DEFAULT_PATTERNS[role])]

\* hashlib.sha1(..).hexdigest(): one digest per text (no collision is modelled)
_sha1_name(name) == <<"sha1">> \o name

\* os.path.splitext(os.path.basename(file_name))[0], of a name with no directory
splitext_base(file_name) ==
  IF Len(file_name) > 1 /\ file_name[Len(file_name)] \in {".xlsb", ".xlsx"}
  THEN SubSeq(file_name, 1, Len(file_name) - 1)
  ELSE file_name

RECURSIVE join(_, _)
join(sep, parts) ==
  IF parts = <<>> THEN <<>>
  ELSE IF Len(parts) = 1 THEN parts[1]
  ELSE parts[1] \o sep \o join(sep, Tail(parts))

\* headers[:29]: the prefix one header short
profile_key_short(file_name, sheet_name, headers) ==
  LET base == splitext_base(file_name)
      n == IF Len(headers) < header_prefix - 1 THEN Len(headers) ELSE header_prefix - 1
      sig == join(<<"|">>, [i \in 1..n |-> _norm(headers[i])])
  IN _sha1_name(base \o <<":", ":">> \o sheet_name \o <<":", ":">> \o sig)

profile_key(file_name, sheet_name, headers) ==
  LET base == splitext_base(file_name)
      n == IF Len(headers) < header_prefix THEN Len(headers) ELSE header_prefix
      sig == join(<<"|">>, [i \in 1..n |-> _norm(headers[i])])
  IN _sha1_name(base \o <<":", ":">> \o sheet_name \o <<":", ":">> \o sig)

\* the profile document: missing, not JSON, JSON that is no object (a list, a
\* string, a number, null), or a JSON object fingerprint -> mapping
DocKinds == { "missing", "unparseable", "nonobject", "object" }
EmptyDict == [dict |-> TRUE, map |-> <<>>]

\* what load_profiles returns: a dict, or the non-dict value json.load gave
load_profiles(d) ==
  CASE d.kind = "missing" -> EmptyDict
    [] d.kind = "unparseable" -> EmptyDict
    [] d.kind = "nonobject" -> [dict |-> FALSE, map |-> <<>>]
    [] d.kind = "object" -> [dict |-> TRUE, map |-> d.map]

save_profiles(profiles) == [kind |-> "object", map |-> profiles.map]

\* prof.get(key): a value that is no dict has no get (AttributeError)
get_saved_mapping(d, key) ==
  LET prof == load_profiles(d)
  IN IF ~prof.dict THEN [raised |-> TRUE, value |-> None]
     ELSE [raised |-> FALSE,
           value |-> IF key \in DOMAIN prof.map THEN prof.map[key] ELSE None]

\* save_profiles({key: mapping}): the document rewritten without what it held
save_mapping_fresh(d, key, mapping) ==
  [raised |-> FALSE, doc |-> save_profiles([dict |-> TRUE, map |-> (key :> mapping)])]

\* prof[key] = mapping: a value that is no dict takes no str key (TypeError),
\* and the document is left as it was
save_mapping(d, key, mapping) ==
  LET prof == load_profiles(d)
  IN IF ~prof.dict THEN [raised |-> TRUE, doc |-> d]
     ELSE [raised |-> FALSE,
           doc |-> save_profiles([dict |-> TRUE,
                                  map |-> (key :> mapping) @@ prof.map])]

\* ---------------------------------------------------- profile store
StoreKeys == { S("k1"), S("k2"), S("k3") }
StoreMappings ==
  { [brand |-> <<>>, chain |-> S("Row Labels"), units |-> S("Units"),
     dollars |-> S("Dollars"), stores |-> S("Stores")],
    [brand |-> <<>>, chain |-> S("Retailer"), units |-> S("Units"),
     dollars |-> S("Dollars"), stores |-> <<>>] }

SaveMapping ==
  /\ pc = "store"
  /\ \E key \in StoreKeys, mapping \in StoreMappings :
       LET r == save_mapping(doc, key, mapping)
       IN /\ doc' = r.doc
          /\ confirmed' = (key :> mapping) @@ confirmed
          /\ args' = [fn |-> "save_mapping", key |-> key]
          /\ ret' = [raised |-> r.raised, value |-> None]
  /\ UNCHANGED <<ingestVars, driverVars, writer>>

GetSavedMapping ==
  /\ pc = "store"
  /\ \E key \in StoreKeys :
       /\ args' = [fn |-> "get_saved_mapping", key |-> key]
       /\ ret' = get_saved_mapping(doc, key)
  /\ UNCHANGED <<ingestVars, driverVars, storeVars>>

LoadProfiles ==
  /\ pc = "store"
  /\ args' = [fn |-> "load_profiles", key |-> <<>>]
  /\ ret' = [raised |-> FALSE, value |-> load_profiles(doc)]
  /\ UNCHANGED <<ingestVars, driverVars, storeVars>>

NoCall == [fn |-> "", key |-> <<>>]
NoRet == [raised |-> FALSE, value |-> None]

\* one operator's session on a store this program wrote, or has yet to write
InitStore ==
  /\ pc = "store" /\ IdleIngest /\ IdleDriver
  /\ doc \in [kind : {"missing", "unparseable"}, map : {<<>>}] /\ confirmed = <<>>
  /\ writer = <<>>
  /\ args = NoCall /\ ret = NoRet
NextStore == SaveMapping \/ GetSavedMapping \/ LoadProfiles
SpecStore == InitStore /\ [][NextStore]_vars

\* the same session on whatever document is found at the profile path
InitAnyDoc ==
  /\ pc = "store" /\ IdleIngest /\ IdleDriver
  /\ doc \in [kind : DocKinds \ {"object"}, map : {<<>>}] /\ confirmed = <<>>
  /\ writer = <<>>
  /\ args = NoCall /\ ret = NoRet
SpecAnyDoc == InitAnyDoc /\ [][NextStore]_vars

\* ---------------------------------------------------------- mapper.py
norm_cell(x) ==
  IF x = None \/ x = NaN THEN <<>>
  ELSE IF re_search("unnamed", strip(x)) THEN <<>>
  ELSE strip(x)

RECURSIVE non_empty(_)
non_empty(tokens) ==
  IF tokens = <<>> THEN <<>>
  ELSE IF Head(tokens) = <<>> THEN non_empty(Tail(tokens))
  ELSE <<Head(tokens)>> \o non_empty(Tail(tokens))

\* one label per column: the non-empty cells of rows start_hdr..end_hdr, joined
combined_headers(raw, start_hdr, end_hdr) ==
  [c \in 1..Len(raw[start_hdr + 1]) |->
     join(<<" ", "|", " ">>,
          non_empty([r \in 1..(end_hdr - start_hdr + 1) |->
                       norm_cell(raw[start_hdr + r][c])]))]

wizard_columns(raw, start_hdr, end_hdr) ==
  LET combined == combined_headers(raw, start_hdr, end_hdr)
  IN seq_of({j \in 1..Len(combined) :
               strip(combined[j]) # <<>> /\ ~re_search("unnamed", strip(combined[j]))},
            combined)

WizardRoles == { "brand", "chain", "units", "dollars", "stores" }
NoneOption == S("(none)")

\* pick(label, key): the option the select box starts on
pick_default(options, suggested, key) ==
  IF suggested[key] \in Range(options) THEN suggested[key] ELSE options[1]

\* {k: (v or "") for k, v in final_map.items()}
final_map(selected) ==
  [k \in WizardRoles |-> IF selected[k] = NoneOption THEN <<>> ELSE selected[k]]

ProfileHdr == << S("Row Labels"), S("Retailer"), S("Units"), S("Dollars"), S("Stores") >>
GridProfile ==
  << << S("52 Wks"), NaN, NaN, NaN, NaN >>, ProfileHdr,
     << S("Kroger"), S("Kroger"), S("10"), S("20"), S("5") >> >>
F_profile == [name |-> DatedName, readable |-> TRUE,
              sheets |-> << [name |-> S("Retailer"), raw |-> GridProfile] >>]
ProfileFiles == { F_profile, F_52 }

\* what the operator may leave a select box on: where it starts, "(none)", or
\* a column whose name reads like the role
operator_choices(options, suggested, key) ==
  {pick_default(options, suggested, key), NoneOption}
    \cup {o \in Range(options) :
            \E i \in 1..Len(DEFAULT_PATTERNS[key]) : re_search(DEFAULT_PATTERNS[key][i], o)}

\* the operator uploads a workbook, takes the row holding "Row Labels" as the
\* one header row, sets the five select boxes and saves the mapping
WizardSave ==
  /\ pc = "idle"
  /\ \E f \in ProfileFiles : \E s \in 1..Len(f.sheets) :
       LET raw == f.sheets[s].raw
           end_hdr == _find_header_row(raw, max_scan)
           cols == wizard_columns(raw, end_hdr, end_hdr)
           suggested == suggest_mapping(cols)
           options == <<NoneOption>> \o cols
       IN /\ end_hdr # -1
          /\ \E brand \in operator_choices(options, suggested, "brand"),
                chain \in operator_choices(options, suggested, "chain"),
                units \in operator_choices(options, suggested, "units"),
                dollars \in operator_choices(options, suggested, "dollars"),
                stores \in operator_choices(options, suggested, "stores") :
               LET selected == [brand |-> brand, chain |-> chain, units |-> units,
                                dollars |-> dollars, stores |-> stores]
                   key == profile_key(f.name, f.sheets[s].name, cols)
                   r == save_mapping(doc, key, final_map(selected))
               IN /\ doc' = r.doc
                  /\ confirmed' = (key :> final_map(selected)) @@ confirmed
  /\ UNCHANGED <<ingestVars, driverVars, fnVars, writer>>

\* the wizard, then one call of the pipeline on a workbook it has seen
CallProfiled == Call(ProfileFiles)
NextProfile == WizardSave \/ CallProfiled \/ ReadSheet \/ Return
SpecProfile == Init /\ [][NextProfile]_vars

\* ------------------------------------------- functions on their own
MaxCols == 3
MaxPats == 2
MaxHeaderLen == 2

SeqsUpTo(X, n) == UNION { [1..k -> X] : k \in 0..n }

MatchHeaders == { S("Units (4W)"), S("Sum of Units"), S("UNITS (4W)") }
MatchPatterns == { "^sum of units$", "\\bunits?\\b", "\\bdoors\\b" }

InitMatch ==
  /\ pc = "call" /\ IdleIngest /\ IdleDriver /\ IdleStore
  /\ args \in [fn : {"_match_one", "_choose_col"},
               cols : SeqsUpTo(MatchHeaders, MaxCols),
               patterns : SeqsUpTo(MatchPatterns, MaxPats)]
  /\ ret = NoRet

ApplyMatch ==
  /\ pc = "call"
  /\ args.fn \in {"_match_one", "_choose_col"}
  /\ ret' = [raised |-> FALSE,
             value |-> IF args.fn = "_match_one"
                       THEN _match_one(args.cols, args.patterns)
                       ELSE _choose_col(args.cols, args.patterns)]
  /\ pc' = "applied"
  /\ UNCHANGED <<file, candidates, si, out_rows, result, read, used, hist,
                 driverVars, storeVars, args>>

SpecMatch == InitMatch /\ [][ApplyMatch]_vars

KeyAtoms == { "a", "A", " ", "|" }
KeyHeaders == SeqsUpTo(KeyAtoms, MaxHeaderLen)
FillHeader == << "a", " ", " ", "A" >>
\* header_prefix + 1 headers, one of them h
HeadersWith(pos, h) == [i \in 1..(header_prefix + 1) |-> IF i = pos THEN h ELSE FillHeader]

InitKey ==
  /\ pc = "call" /\ IdleIngest /\ IdleDriver /\ IdleStore
  /\ args \in [fn : {"profile_key"}, file_name : {DatedName}, sheet_name : {S("Sheet1")},
               pos : {1, header_prefix, header_prefix + 1},
               a : KeyHeaders, b : KeyHeaders]
  /\ ret = NoRet

ApplyKey ==
  /\ pc = "call"
  /\ args.fn = "profile_key"
  /\ ret' = [raised |-> FALSE,
             value |-> << profile_key(args.file_name, args.sheet_name,
                                      HeadersWith(args.pos, args.a)),
                          profile_key(args.file_name, args.sheet_name,
                                      HeadersWith(args.pos, args.b)) >>]
  /\ pc' = "applied"
  /\ UNCHANGED <<file, candidates, si, out_rows, result, read, used, hist,
                 driverVars, storeVars, args>>

SpecKey == InitKey /\ [][ApplyKey]_vars

\* suggest_mapping on the headers the wizard built, then the select boxes and
\* the save button
SuggestHeaders == { S("Row Labels"), S("units"), S("Units"), S("Stores") }

InitSuggest ==
  /\ pc = "call" /\ IdleIngest /\ IdleDriver /\ IdleStore
  /\ args \in [fn : {"suggest_mapping"}, file_name : {DatedName}, sheet_name : {S("Sheet1")},
               headers : SeqsUpTo(SuggestHeaders, MaxCols)]
  /\ ret = NoRet

ApplySuggest ==
  /\ pc = "call"
  /\ args.fn = "suggest_mapping"
  /\ ret' = [raised |-> FALSE, value |-> suggest_mapping(args.headers)]
  /\ pc' = "suggested"
  /\ UNCHANGED <<file, candidates, si, out_rows, result, read, used, hist,
                 driverVars, storeVars, args>>

\* options, pick, final_map and save_mapping(key, ..) of the wizard
WizardConfirm ==
  /\ pc = "suggested"
  /\ LET options == <<NoneOption>> \o args.headers
         suggested == ret.value
     IN \E brand \in operator_choices(options, suggested, "brand"),
           chain \in operator_choices(options, suggested, "chain"),
           units \in operator_choices(options, suggested, "units"),
           dollars \in operator_choices(options, suggested, "dollars"),
           stores \in operator_choices(options, suggested, "stores") :
          LET selected == [brand |-> brand, chain |-> chain, units |-> units,
                           dollars |-> dollars, stores |-> stores]
              key == profile_key(args.file_name, args.sheet_name, args.headers)
              r == save_mapping(doc, key, final_map(selected))
          IN /\ doc' = r.doc
             /\ confirmed' = (key :> final_map(selected)) @@ confirmed
  /\ pc' = "saved"
  /\ UNCHANGED <<file, candidates, si, out_rows, result, read, used, hist,
                 driverVars, fnVars, writer>>

NextSuggest == ApplySuggest \/ WizardConfirm
SpecSuggest == InitSuggest /\ [][NextSuggest]_vars

\* the two header scans on grids of up to MaxRows rows
MaxRows == 6

ScanRowSet ==
  { << NaN, S("Row  Labels") >>,
    << NaN, S("Row Labels") >>,
    << <<" ", "ROW LABELS", " ">>, NaN >>,
    << S("My Row Labels Total"), NaN >> }
ScanGrids == SeqsUpTo(ScanRowSet, MaxRows)
\* the bounds a caller may pass, and the default
ScanBounds == (-1..(MaxRows + 1)) \cup {max_scan}

InitScan ==
  /\ pc = "call" /\ IdleIngest /\ IdleDriver /\ IdleStore
  /\ args \in [fn : {"_find_header_row", "_find_header_block"},
               raw : ScanGrids, bound : ScanBounds]
  /\ ret = NoRet

ApplyScan ==
  /\ pc = "call"
  /\ args.fn \in {"_find_header_row", "_find_header_block"}
  /\ ret' = [raised |-> FALSE,
             value |-> [result |-> IF args.fn = "_find_header_row"
                                   THEN _find_header_row(args.raw, args.bound)
                                   ELSE _find_header_block(args.raw, args.bound),
                        examined |-> rows_examined(args.raw, 0,
                                                   scan_upto(args.raw, args.bound))]]
  /\ pc' = "applied"
  /\ UNCHANGED <<file, candidates, si, out_rows, result, read, used, hist,
                 driverVars, storeVars, args>>

SpecScan == InitScan /\ [][ApplyScan]_vars

\* ------------------------------------------- concurrent save_mapping
\* Two sessions run save_mapping at once, each a load_profiles, an insert into
\* its own dict and a save_profiles.  save_profiles is open(PROFILE_PATH, "w"),
\* which empties the file, and json.dump with the close, which writes the text
\* from the start of the file; an empty file is no JSON document.
Writers == { "w1", "w2" }
Truncated == [kind |-> "unparseable", map |-> <<>>]
Garbled == [kind |-> "unparseable", map |-> <<>>]
OldMapping ==
  [brand |-> <<>>, chain |-> S("Row Labels"), units |-> S("Units"),
   dollars |-> S("Dollars"), stores |-> <<>>]
\* the documents the sessions start on: none, one layout saved, two saved
StartDocs ==
  { NoDoc,
    [kind |-> "object", map |-> (S("k3") :> OldMapping)],
    [kind |-> "object", map |-> (S("k3") :> OldMapping) @@ (S("k1") :> OldMapping)] }

\* len(str) of the names that stand in a mapping
char_len(a) ==
  CASE a = "Row Labels" -> 10
    [] a = "Retailer" -> 8
    [] a = "Dollars" -> 7
    [] a = "Stores" -> 6
    [] a = "Units" -> 5
    [] a = "units" -> 5
    [] OTHER -> 1

RECURSIVE text_len(_)
text_len(s) == IF s = <<>> THEN 0 ELSE char_len(Head(s)) + text_len(Tail(s))

RECURSIVE sum_over(_, _)
sum_over(f, D) ==
  IF D = {} THEN 0
  ELSE LET k == CHOOSE x \in D : TRUE IN f[k] + sum_over(f, D \ {k})

\* the length of the text json.dump(profiles, f, indent=2) writes: "{}", or
\* per entry a 40-digit key, the five role names and the punctuation (140
\* characters with the separator) and the characters of the five values
dump_len(profiles) ==
  2 + sum_over([k \in DOMAIN profiles |->
                  140 + sum_over([role \in DOMAIN profiles[k] |-> text_len(profiles[k][role])],
                                 DOMAIN profiles[k])],
               DOMAIN profiles)

WriterStep(w, at, to) ==
  /\ pc = "writers"
  /\ writer[w].pc = at
  /\ writer' = [writer EXCEPT ![w].pc = to,
                              ![w].prof = IF to = "loaded" THEN load_profiles(doc).map
                                          ELSE IF to = "inserted"
                                               THEN (writer[w].key :> writer[w].mapping)
                                                      @@ writer[w].prof
                                               ELSE writer[w].prof]
  /\ UNCHANGED <<ingestVars, driverVars, fnVars, confirmed>>

\* prof = load_profiles()
WriterLoad(w) == WriterStep(w, "start", "loaded") /\ doc' = doc

\* prof[key] = mapping
WriterInsert(w) == WriterStep(w, "loaded", "inserted") /\ doc' = doc

\* with open(PROFILE_PATH, "w") as f: the file is emptied
WriterOpen(w) == WriterStep(w, "inserted", "open") /\ doc' = Truncated

\* json.dump(profiles, f, indent=2) and the close.  The text goes to offset 0
\* of the handle.  The file holds a document here only if the other session
\* wrote it since this handle was opened, and a shorter text written over it
\* leaves the tail of the longer one behind, which is no JSON document.
WriterDump(w) ==
  /\ WriterStep(w, "open", "done")
  /\ doc' = IF doc.kind = "object" /\ dump_len(writer[w].prof) < dump_len(doc.map)
            THEN Garbled
            ELSE save_profiles([dict |-> TRUE, map |-> writer[w].prof])

InitWriters ==
  /\ pc = "writers" /\ IdleIngest /\ IdleDriver /\ IdleFn
  /\ doc \in StartDocs
  /\ confirmed = doc.map
  /\ writer \in [Writers -> [pc : {"start"}, key : {S("k1"), S("k2")},
                             mapping : StoreMappings, prof : {<<>>}]]
  /\ writer["w1"].key = S("k1") /\ writer["w2"].key = S("k2")

Load == \E w \in Writers : WriterLoad(w)
Insert == \E w \in Writers : WriterInsert(w)
OpenForWrite == \E w \in Writers : WriterOpen(w)
Dump == \E w \in Writers : WriterDump(w)
NextWriters == Load \/ Insert \/ OpenForWrite \/ Dump
SpecWriters == InitWriters /\ [][NextWriters]_vars

\* ------------------------------------------------------------ claims
\* what a claim says of a sheet, read off the grid itself
AnchorRows(raw) == {i \in 1..Len(raw) : i <= max_scan /\ row_has_anchor(raw[i])}
HasAnchorRow(raw) == AnchorRows(raw) # {}
AnchorRow(raw) == Min(AnchorRows(raw)) - 1
Resolved(raw) == map_columns(cols_of(raw, AnchorRow(raw)))
IsNull(x) == x \in {None, <<>>}
\* the columns the pipeline requires of a sheet
SheetUsable(raw) ==
  /\ HasAnchorRow(raw)
  /\ \A role \in {"chain", "units", "dollars", "stores"} : ~IsNull(Resolved(raw)[role])
RowsOf(f, sh) ==
  LET raw == raw_of(f, sh)
  IN sheet_frame(raw, AnchorRow(raw), Resolved(raw), f.name).rows
Returned == pc = "returned" /\ ~result.raised

\* C1: ingest_single_period emits the rows of exactly one sheet, the first
\* candidate (in candidate order) that has an anchor row and resolves the
\* columns the pipeline requires; it reads no sheet after that one, and with
\* no such sheet it reads every candidate and emits no row.
C1_FirstUsableSheetOnly ==
  Returned =>
    LET U == {i \in 1..Len(candidates) : SheetUsable(raw_of(file, candidates[i]))}
    IN IF U = {}
       THEN read = candidates /\ result.df.rows = <<>>
       ELSE /\ read = SubSeq(candidates, 1, Min(U))
            /\ Len(used) = 1
            /\ used[1].sheet = candidates[Min(U)]
            /\ result.df.rows = RowsOf(file, candidates[Min(U)])

\* C1 witness: two candidate sheets carry the same usable table and the
\* result holds one sheet's rows, not the sum.
C1_Witness ==
  /\ Returned
  /\ Len(candidates) = 2
  /\ raw_of(file, candidates[1]) = raw_of(file, candidates[2])
  /\ SheetUsable(raw_of(file, candidates[1]))
  /\ Len(RowsOf(file, candidates[1])) > 0
  /\ Len(result.df.rows) = Len(RowsOf(file, candidates[1]))

RECURSIVE Labelled(_)
Labelled(h) ==
  IF h = <<>> THEN <<>>
  ELSE (IF Head(h).result.raised THEN <<>>
        ELSE [i \in 1..Len(Head(h).result.df.rows) |->
                Head(h).result.df.rows[i] @@ [source_file |-> Head(h).name]])
       \o Labelled(Tail(h))

\* C2: the multi-file driver visits every file of its list even when earlier
\* files raise or yield no rows, and returns the in-order concatenation of the
\* rows of the files that produced rows, each row labelled with source_file,
\* the name of its file.
C2_DriverConcatLabelled ==
  pc = "done" =>
    /\ ~output.raised
    /\ Len(hist) = nlist
    /\ output.df.rows = Labelled(hist)

\* C3: a sheet with an anchor row is usable if and only if chain, units and
\* dollars resolve; with stores unmapped it is still used and its rows carry a
\* null stores value.
C3_StoresOptional ==
  Returned =>
    \A i \in 1..Len(read) :
      LET raw == raw_of(file, read[i])
          m == Resolved(raw)
          emitted == \E k \in 1..Len(used) : used[k].sheet = read[i]
      IN HasAnchorRow(raw) =>
           /\ emitted <=> (~IsNull(m.chain) /\ ~IsNull(m.units) /\ ~IsNull(m.dollars))
           /\ (emitted /\ IsNull(m.stores)) =>
                \A k \in 1..Len(result.df.rows) : result.df.rows[k].stores = NA

\* the metadata window of the sheet whose rows were emitted
UsedWindow ==
  LET raw == raw_of(file, used[1].sheet)
  IN {lower(astype_str(c)) : c \in window_cells(raw, AnchorRow(raw))}
YtdTokens == {S("ytd"), S("year to date")}
WeekTokens(n) ==
  CASE n = "4" -> {S("4 wks")}
    [] n = "12" -> {S("12 wks")}
    [] n = "24" -> {S("24 wks")}
    [] n = "52" -> {S("52 wks")}
Periods == {r.period : r \in Range(result.df.rows)}

\* C5: a "YTD" or "year to date" token anywhere in the metadata window makes
\* the period "YTD", whether or not a week count is there too.
C5_YtdWins ==
  (Returned /\ used # <<>>) =>
    (UsedWindow \cap YtdTokens # {} => Periods \subseteq {S("YTD")})

\* C6: every emitted period is one of "4", "12", "24", "52", "YTD", "unknown";
\* with no YTD token and a week count n of 4, 12, 24 or 52 in the window it is
\* n as a plain number, and it is "unknown" only when neither token is there.
C6_PeriodDomain ==
  (Returned /\ used # <<>>) =>
    /\ Periods \subseteq {S("4"), S("12"), S("24"), S("52"), S("YTD"), S("unknown")}
    /\ \A n \in {"4", "12", "24", "52"} :
         (UsedWindow \cap YtdTokens = {} /\ UsedWindow \cap WeekTokens(n) # {})
           => S(n) \in Periods \/ Periods = {}
    /\ S("unknown") \in Periods =>
         /\ UsedWindow \cap YtdTokens = {}
         /\ \A n \in {"4", "12", "24", "52"} : UsedWindow \cap WeekTokens(n) = {}

\* C8: in single-writer use the store holds, for every key, exactly the mapping
\* of the most recent save_mapping of that key and nothing for a key never
\* saved (so a save leaves every other key's mapping as it was), and
\* get_saved_mapping returns that mapping, or null for a key never saved.
C8_LastSaveWins ==
  /\ load_profiles(doc).dict
  /\ load_profiles(doc).map = confirmed
  /\ args.fn = "get_saved_mapping" =>
       /\ ~ret.raised
       /\ ret.value = IF args.key \in DOMAIN confirmed THEN confirmed[args.key] ELSE None
  /\ args.fn = "save_mapping" => ~ret.raised

\* C8 witness: two keys were saved, one of them twice with different mappings,
\* and a get of the key saved twice has returned.
C8_Witness ==
  /\ Cardinality(DOMAIN confirmed) >= 2
  /\ args.fn = "get_saved_mapping"
  /\ args.key \in DOMAIN confirmed
  /\ ret.value = confirmed[args.key]
  /\ \E k \in DOMAIN confirmed : confirmed[k] # confirmed[args.key]

\* C9: load_profiles never raises and gives an empty map for a document that is
\* missing or cannot be parsed into a fingerprint-to-mapping map, and
\* get_saved_mapping on such a store returns null rather than failing.
C9_CorruptIsEmpty ==
  /\ (doc.kind # "object" /\ args.fn = "load_profiles") =>
       (~ret.raised /\ ret.value = EmptyDict)
  /\ (doc.kind # "object" /\ args.fn = "get_saved_mapping") =>
       (~ret.raised /\ ret.value = None)

\* the header the claim names: the leftmost column matching the earliest
\* pattern that matches any column, or null
EarliestPatternLeftmost(cols, patterns) ==
  LET hits(k) == {i \in 1..Len(cols) : re_search(patterns[k], cols[i])}
      K == {k \in 1..Len(patterns) : hits(k) # {}}
  IN IF K = {} THEN None ELSE cols[Min(hits(Min(K)))]

\* C4: role matching returns the leftmost header (original column order) that
\* matches the earliest pattern of the list having any match, and null when no
\* pattern matches any header.
C4_PatternPriority ==
  (pc = "applied" /\ args.fn \in {"_match_one", "_choose_col"}) =>
    ret.value = EarliestPatternLeftmost(args.cols, args.patterns)

\* C7: once the operator has saved a mapping for a layout, a later pipeline
\* ingest of a sheet of that layout uses the saved mapping for its columns.
C7_SavedMappingUsed ==
  (Returned /\ used # <<>>) =>
    LET key == profile_key(file.name, used[1].sheet, used[1].cols)
    IN key \in DOMAIN confirmed =>
         \A role \in {"chain", "units", "dollars", "stores"} :
           used[1].mapping[role] = confirmed[key][role]

KeysOf == ret.value
\* C10 as stated: two inputs that differ in one of the first 30 headers give
\* different keys.
C10_AnyDifferenceChangesKey ==
  (pc = "applied" /\ args.fn = "profile_key"
     /\ args.pos <= header_prefix /\ args.a # args.b) => KeysOf[1] # KeysOf[2]

\* C10 amended: two inputs that differ in exactly one of the first 30 headers
\* give the same key when the two headers are equal after normalisation (trim,
\* lower case, runs of white space collapsed) and different keys otherwise.
C10_KeyFollowsNormalisedHeader ==
  (pc = "applied" /\ args.fn = "profile_key" /\ args.pos <= header_prefix) =>
    (KeysOf[1] = KeysOf[2] <=> _norm(args.a) = _norm(args.b))

\* C10 witness: the 30th headers differ after normalisation, and so do the keys.
C10_Witness ==
  /\ pc = "applied" /\ args.fn = "profile_key"
  /\ args.pos = header_prefix
  /\ _norm(args.a) # _norm(args.b)
  /\ KeysOf[1] # KeysOf[2]

driver_columns == Append(tidy_columns, "source_file")

\* C11: with no usable candidate sheet ingest_single_period returns, without
\* raising, a zero-row result under the full tidy column set; and when no file
\* of a batch yields rows the multi-file driver returns a zero-row result under
\* the full column set (the tidy columns and source_file), neither column-less
\* nor raised.
C11_EmptyCarriesColumns ==
  /\ (pc = "returned" /\ file.readable
        /\ \A i \in 1..Len(candidates) : ~SheetUsable(raw_of(file, candidates[i])))
       => (~result.raised /\ result.df = [columns |-> tidy_columns, rows |-> <<>>])
  /\ (pc = "done" /\ \A i \in 1..Len(hist) :
                       hist[i].result.raised \/ hist[i].result.df.rows = <<>>)
       => (~output.raised /\ output.df = [columns |-> driver_columns, rows |-> <<>>])

\* C12: every non-null entry of the mapping suggest_mapping produces, and
\* every non-empty entry the wizard then saves to the profile store, is an
\* element of the header sequence it was derived from.
C12_MappingNamesHeaders ==
  /\ (pc \in {"suggested", "saved"} /\ args.fn = "suggest_mapping") =>
       \A role \in DOMAIN ret.value :
         ret.value[role] # None => ret.value[role] \in Range(args.headers)
  /\ (pc = "saved" /\ args.fn = "suggest_mapping") =>
       \A k \in DOMAIN load_profiles(doc).map : \A role \in WizardRoles :
         load_profiles(doc).map[k][role] # <<>>
           => load_profiles(doc).map[k][role] \in Range(args.headers)

BothDone == pc = "writers" /\ \A w \in Writers : writer[w].pc = "done"
WrittenKeys == {writer[w].key : w \in Writers}
Kept(w) ==
  /\ doc.kind = "object"
  /\ writer[w].key \in DOMAIN doc.map
  /\ doc.map[writer[w].key] = writer[w].mapping

\* the lost update: both sessions completed and the store holds the entry of
\* one of them only
LostUpdate ==
  /\ BothDone
  /\ \E w \in Writers : Kept(w) /\ \A v \in Writers \ {w} : ~Kept(v)

\* C13: two sessions running save_mapping(k1, m1) and save_mapping(k2, m2),
\* k1 # k2, at once may both complete with only one of the two entries in the
\* store, and whatever the interleaving the store is left a readable document
\* in which every entry neither of them wrote is as it was.
C13_OnlyOwnEntriesAtRisk ==
  BothDone =>
    /\ doc.kind = "object"
    /\ \A k \in DOMAIN confirmed \ WrittenKeys :
         k \in DOMAIN doc.map /\ doc.map[k] = confirmed[k]

\* the cell of data row r (counted from 1) under the column mapped to a role
CellOf(raw, r, role) ==
  raw[r][col_of(headers_of(raw, AnchorRow(raw)), Resolved(raw)[role])]
\* a chain cell that is there and is not blank
HasChain(c) == c \notin {NaN, None} /\ strip(c) # <<>>
\* the data rows below the header that carry a chain, in sheet order
RowsWithChain(raw) ==
  seq_of({r \in (AnchorRow(raw) + 2)..Len(raw) : HasChain(CellOf(raw, r, "chain"))},
         [r \in 1..Len(raw) |-> r])

\* C14: the rows emitted for a usable sheet are exactly the data rows below
\* the header whose chain cell is non-empty after trimming, in sheet order: a
\* row with an empty or missing chain cell is discarded, and a row whose units,
\* dollars or stores cell is no number is kept with that field null.
C14_RowsWithChainKept ==
  (Returned /\ used # <<>>) =>
    LET raw == raw_of(file, used[1].sheet)
        kept == RowsWithChain(raw)
    IN /\ Len(result.df.rows) = Len(kept)
       /\ \A n \in 1..Len(kept) :
            /\ n <= Len(result.df.rows)
            /\ result.df.rows[n].chain = strip(CellOf(raw, kept[n], "chain"))
            /\ \A role \in {"units", "dollars", "stores"} :
                 result.df.rows[n][role] = to_numeric(CellOf(raw, kept[n], role))

\* the cells that contain "row labels" in some case
AnchorCells ==
  { S("Row Labels"), <<" ", "ROW LABELS", " ">>, S("My Row Labels Total") }
\* the indices below the bound of the rows with such a cell
AnchorsWithin(raw, bound) ==
  {i \in 0..(Len(raw) - 1) : i < bound /\ \E j \in 1..Len(raw[i + 1]) : raw[i + 1][j] \in AnchorCells}

\* C15: for every grid and scan bound the header scan returns the smallest
\* index i < min(bound, row count) of a row with a cell containing "row labels"
\* in any case, and not-found when there is none, and it reads no row at or
\* past the bound; the header block is then rows [max(0, i-3), i] and the first
\* data row is i+1.
C15_FirstAnchorWithinBound ==
  (pc = "applied" /\ args.fn \in {"_find_header_row", "_find_header_block"}) =>
    LET A == AnchorsWithin(args.raw, args.bound)
        i == Min(A)
    IN /\ \A k \in Range(ret.value.examined) : k < args.bound /\ k < Len(args.raw)
       /\ args.fn = "_find_header_row" =>
            ret.value.result = IF A = {} THEN -1 ELSE i
       /\ args.fn = "_find_header_block" =>
            IF A = {} THEN ret.value.result = None
            ELSE /\ Len(ret.value.result) = 3
                 /\ ret.value.result[1] = Max({0, i - 3})
                 /\ ret.value.result[2] = i
                 /\ ret.value.result[3] = i + 1

\* C15 witness: an anchor row lies at or past the bound and is not found, and
\* the block of the one found below the bound starts three rows above it.
C15_Witness ==
  /\ pc = "applied" /\ args.fn = "_find_header_block"
  /\ args.bound < Len(args.raw)
  /\ AnchorsWithin(args.raw, Len(args.raw)) # AnchorsWithin(args.raw, args.bound)
  /\ ret.value.result = << 1, 4, 5 >>

====
